---- MODULE Spec2Model ----
(***************************************************************************)
(* Model of implementors/core/ops/drop/trait.Drop.js: the rustdoc          *)
(* "implementors" script.  The script is one anonymous function, called    *)
(* at once, that builds the table `implementors` (lines 1-8) and hands it  *)
(* to the page (lines 10-14): to window.register_implementors when that    *)
(* slot is truthy, to window.pending_implementors otherwise.               *)
(*                                                                         *)
(* pc is the source line the script executes next.  The page around the    *)
(* script (the consumer that installs the callback, other scripts that     *)
(* write the pending slot, the body of the callback) is the environment.   *)
(***************************************************************************)
EXTENDS Integers, Sequences, FiniteSets, TLC

\* Number of times the page loads the script (script elements naming it).
MaxRuns == 2

VARIABLES
    pc,             \* "idle", "L1".."L8", "L10", "L11", "in_callback", "L13", "done", "error"
                    \* ("done", "error": the script has just ended; "idle": the page goes on)
    run,            \* how many times the script has been loaded
    implementors,   \* the script's local variable `implementors`
    window,         \* the two global slots the script reads and writes
    checked,        \* history: the value the test of line 10 read
    pendingAtStart, \* history: window.pending_implementors when the run began
    tableWrites,    \* history: the keys the run assigned, in order
    calls,          \* history: the calls the run made, with their arguments
    pendingWrites,  \* history: the values the run wrote to the pending slot
    steps           \* history: the statements the run executed

vars == <<pc, run, implementors, window, checked, pendingAtStart,
          tableWrites, calls, pendingWrites, steps>>

-----------------------------------------------------------------------------
(* JavaScript values.  Every value is a record of one shape: a primitive   *)
(* or a function is its kind alone; an object built by an implementors     *)
(* script is a table with the identity of the run that built it.           *)

EmptyMap == [k \in {} |-> <<>>]

Prim(kind) == [kind |-> kind, id |-> 0, map |-> EmptyMap]

Table(id, map) == [kind |-> "table", id |-> id, map |-> map]

Undefined == Prim("undefined")

\* The values JavaScript's ToBoolean maps to false.
FalsyKinds == {"undefined", "null", "false", "zero", "nan", "emptystr"}

\* Values that are truthy and cannot be called.
NonCallableKinds == {"true", "one", "str", "object", "table"}

\* Functions, named by what their body does when called.
FnKinds == {"fn_ret", "fn_throw", "fn_setpending", "fn_loop"}

ToBoolean(v) == v.kind \notin FalsyKinds

IsCallable(v) == v.kind \in FnKinds

-----------------------------------------------------------------------------
(* The literal of lines 2-8.  A record's text is its HTML markup, written  *)
(* here as the text the markup renders to.                                 *)

Rec(text, ty) == [text |-> text, synthetic |-> FALSE, types |-> <<ty>>]

bzip2_impls ==
    << Rec("impl<W: Write> Drop for BzEncoder<W>", "bzip2::write::BzEncoder"),
       Rec("impl<W: Write> Drop for BzDecoder<W>", "bzip2::write::BzDecoder") >>

flate2_impls ==
    << Rec("impl<W: Write> Drop for GzEncoder<W>", "flate2::gz::write::GzEncoder") >>

generic_array_impls ==
    << Rec("impl<T, N> Drop for GenericArrayIter<T, N> where N: ArrayLength<T>",
           "generic_array::iter::GenericArrayIter") >>

regex_syntax_impls ==
    << Rec("impl Drop for Ast", "regex_syntax::ast::Ast"),
       Rec("impl Drop for ClassSet", "regex_syntax::ast::ClassSet"),
       Rec("impl Drop for Hir", "regex_syntax::hir::Hir") >>

syn_impls ==
    << Rec("impl<'a> Drop for ParseBuffer<'a>", "syn::parse::ParseBuffer") >>

thread_local_impls ==
    << Rec("impl<T: ?Sized + Send> Drop for ThreadLocal<T>", "thread_local::ThreadLocal") >>

zip_impls ==
    << Rec("impl<'a> Drop for ZipFile<'a>", "zip::read::ZipFile"),
       Rec("impl<W: Write + Seek> Drop for ZipWriter<W>", "zip::write::ZipWriter") >>

\* The keys in the order lines 2-8 assign them.
KeyOrder ==
    <<"bzip2", "flate2", "generic_array", "regex_syntax", "syn", "thread_local", "zip">>

\* The line that assigns KeyOrder[i].
AssignPc == <<"L2", "L3", "L4", "L5", "L6", "L7", "L8">>

Reverse(s) == [i \in 1..Len(s) |-> s[Len(s) + 1 - i]]

\* A generator that emitted each list last record first.
LiteralReversed(k) ==
    CASE k = "bzip2" -> Reverse(bzip2_impls)
      [] k = "flate2" -> Reverse(flate2_impls)
      [] k = "generic_array" -> Reverse(generic_array_impls)
      [] k = "regex_syntax" -> Reverse(regex_syntax_impls)
      [] k = "syn" -> Reverse(syn_impls)
      [] k = "thread_local" -> Reverse(thread_local_impls)
      [] k = "zip" -> Reverse(zip_impls)

\* The right-hand side of the assignment to implementors[k].
Literal(k) ==
    CASE k = "bzip2" -> bzip2_impls
      [] k = "flate2" -> flate2_impls
      [] k = "generic_array" -> generic_array_impls
      [] k = "regex_syntax" -> regex_syntax_impls
      [] k = "syn" -> syn_impls
      [] k = "thread_local" -> thread_local_impls
      [] k = "zip" -> zip_impls

\* An assignment whose key is always "bzip2": every line overwrites one list.
AssignedKeySame(i) == KeyOrder[1]

\* The key line AssignPc[i] assigns.
AssignedKey(i) == KeyOrder[i]

\* implementors[k] = v: adds the key, or replaces its value.
PutKey(map, k, v) ==
    [x \in (DOMAIN map) \cup {k} |-> IF x = k THEN v ELSE map[x]]

-----------------------------------------------------------------------------
(* The page.                                                               *)

\* A table left by another implementors script of the same page.
ForeignTable ==
    Table(0, [k \in {"other_crate"} |->
                 << Rec("impl Drop for Other", "other_crate::Other") >>])

RegisterValues ==
    {Prim(k) : k \in FalsyKinds \cup FnKinds \cup {"true", "one", "str", "object"}}
        \cup {ForeignTable}

PendingValues == {Undefined, Prim("null"), ForeignTable}

\* The script is not executing: other code of the page may run.
Quiescent == {"idle"}

\* An await between the test and the call would let other code run there.
SuspensionPointsAtCall == {"L11"}

\* The lines at which the script suspends and lets other code run: the body has
\* no await, no yield and no callback registration, so there is none.
SuspensionPoints == {}

\* A script that retries: after the call returns it calls again.
AfterCallRetry == "L11"

\* An if without its else: after the call returns the write of line 13 runs too.
AfterCallFallsThrough == "L13"

\* Line 12: the call has returned, the else branch is skipped, and nothing
\* follows the if statement: the function returns.
AfterCall == "done"

\* Line 14: nothing follows the if statement: the function returns.
AfterStore == "done"

\* The call wrapped in try/catch, the catch falling back to the pending slot.
AfterThrowFallback == "L13"

\* No try encloses the call of line 11: an exception leaves the script.
AfterThrow == "error"

-----------------------------------------------------------------------------

Init ==
    /\ pc = "idle"
    /\ run = 0
    /\ implementors = Undefined
    /\ window \in [register_implementors : RegisterValues,
                   pending_implementors : PendingValues]
    /\ checked = Undefined
    /\ pendingAtStart = Undefined
    /\ tableWrites = <<>>
    /\ calls = <<>>
    /\ pendingWrites = <<>>
    /\ steps = 0

\* The page loads the script: the function of line 1 is entered.
LoadScript ==
    /\ pc \in Quiescent
    /\ run < MaxRuns
    /\ run' = run + 1
    /\ pc' = "L1"
    /\ implementors' = Undefined
    /\ checked' = Undefined
    /\ pendingAtStart' = window.pending_implementors
    /\ tableWrites' = <<>>
    /\ calls' = <<>>
    /\ pendingWrites' = <<>>
    /\ steps' = 0
    /\ UNCHANGED window

\* Line 1: var implementors = {};
L1 ==
    /\ pc = "L1"
    /\ implementors' = Table(run, EmptyMap)
    /\ pc' = AssignPc[1]
    /\ steps' = steps + 1
    /\ UNCHANGED <<run, window, checked, pendingAtStart, tableWrites, calls, pendingWrites>>

\* Lines 2-8: implementors["<key>"] = [ ... ];
Assign(i) ==
    /\ pc = AssignPc[i]
    /\ LET k == AssignedKey(i) IN
         /\ implementors' = Table(implementors.id, PutKey(implementors.map, k, Literal(k)))
         /\ tableWrites' = Append(tableWrites, k)
    /\ pc' = IF i < Len(AssignPc) THEN AssignPc[i + 1] ELSE "L10"
    /\ steps' = steps + 1
    /\ UNCHANGED <<run, window, checked, pendingAtStart, calls, pendingWrites>>

\* A test of callability: typeof window.register_implementors === "function".
L10Callable ==
    /\ pc = "L10"
    /\ checked' = window.register_implementors
    /\ pc' = IF IsCallable(window.register_implementors) THEN "L11" ELSE "L13"
    /\ steps' = steps + 1
    /\ UNCHANGED <<run, implementors, window, pendingAtStart, tableWrites, calls, pendingWrites>>

\* Line 10: if (window.register_implementors)
L10 ==
    /\ pc = "L10"
    /\ checked' = window.register_implementors
    /\ pc' = IF ToBoolean(window.register_implementors) THEN "L11" ELSE "L13"
    /\ steps' = steps + 1
    /\ UNCHANGED <<run, implementors, window, pendingAtStart, tableWrites, calls, pendingWrites>>

\* A call that also stashes the table in the pending slot.
L11AlsoStores ==
    /\ pc = "L11"
    /\ steps' = steps + 1
    /\ IF IsCallable(window.register_implementors)
         THEN /\ calls' = Append(calls, [fn |-> window.register_implementors,
                                         args |-> <<implementors>>])
              /\ window' = [window EXCEPT !.pending_implementors = implementors]
              /\ pendingWrites' = Append(pendingWrites, implementors)
              /\ pc' = "in_callback"
         ELSE /\ pc' = AfterThrow
              /\ UNCHANGED <<calls, window, pendingWrites>>
    /\ UNCHANGED <<run, implementors, checked, pendingAtStart, tableWrites>>

\* Line 11: window.register_implementors(implementors);
\* The slot is read again; a value that is not callable makes the call a TypeError.
L11 ==
    /\ pc = "L11"
    /\ steps' = steps + 1
    /\ IF IsCallable(window.register_implementors)
         THEN /\ calls' = Append(calls, [fn |-> window.register_implementors,
                                         args |-> <<implementors>>])
              /\ pc' = "in_callback"
         ELSE /\ pc' = AfterThrow
              /\ UNCHANGED calls
    /\ UNCHANGED <<run, implementors, window, checked, pendingAtStart, tableWrites,
                   pendingWrites>>

\* A write that keeps a value already pending: pending = pending || implementors.
L13KeepsPending ==
    /\ pc = "L13"
    /\ steps' = steps + 1
    /\ IF ToBoolean(window.pending_implementors)
         THEN UNCHANGED <<window, pendingWrites>>
         ELSE /\ window' = [window EXCEPT !.pending_implementors = implementors]
              /\ pendingWrites' = Append(pendingWrites, implementors)
    /\ pc' = AfterStore
    /\ UNCHANGED <<run, implementors, checked, pendingAtStart, tableWrites, calls>>

\* An else branch that was left out.
L13Skipped ==
    /\ pc = "L13"
    /\ steps' = steps + 1
    /\ pc' = AfterStore
    /\ UNCHANGED <<run, implementors, window, checked, pendingAtStart, tableWrites, calls,
                   pendingWrites>>

\* Line 13: window.pending_implementors = implementors;
L13 ==
    /\ pc = "L13"
    /\ steps' = steps + 1
    /\ window' = [window EXCEPT !.pending_implementors = implementors]
    /\ pendingWrites' = Append(pendingWrites, implementors)
    /\ pc' = AfterStore
    /\ UNCHANGED <<run, implementors, checked, pendingAtStart, tableWrites, calls>>

\* The callback returns to line 11; the if statement is over.
CallbackReturns ==
    /\ pc = "in_callback"
    /\ calls[Len(calls)].fn.kind = "fn_ret"
    /\ pc' = AfterCall
    /\ UNCHANGED <<run, implementors, window, checked, pendingAtStart, tableWrites, calls,
                   pendingWrites, steps>>

\* The callback keeps its argument in the pending slot, then returns.
CallbackSetsPending ==
    /\ pc = "in_callback"
    /\ calls[Len(calls)].fn.kind = "fn_setpending"
    /\ window' = [window EXCEPT !.pending_implementors = calls[Len(calls)].args[1]]
    /\ pc' = AfterCall
    /\ UNCHANGED <<run, implementors, checked, pendingAtStart, tableWrites, calls,
                   pendingWrites, steps>>

\* The callback throws.  (A callback of kind fn_loop never returns: no step.)
CallbackThrows ==
    /\ pc = "in_callback"
    /\ calls[Len(calls)].fn.kind = "fn_throw"
    /\ pc' = AfterThrow
    /\ UNCHANGED <<run, implementors, window, checked, pendingAtStart, tableWrites, calls,
                   pendingWrites, steps>>

\* Line 16: the call of the anonymous function is over, normally or by an
\* exception nothing caught; the page goes on.  The run's history is kept.
ReturnToPage ==
    /\ pc \in {"done", "error"}
    /\ pc' = "idle"
    /\ UNCHANGED <<run, implementors, window, checked, pendingAtStart, tableWrites, calls,
                   pendingWrites, steps>>

\* The consumer (or any other code of the page) writes the callback slot.
ConsumerInstalls ==
    /\ pc \in Quiescent \cup SuspensionPoints
    /\ \E v \in RegisterValues :
         /\ v # window.register_implementors
         /\ window' = [window EXCEPT !.register_implementors = v]
    /\ UNCHANGED <<pc, run, implementors, checked, pendingAtStart, tableWrites, calls,
                   pendingWrites, steps>>

\* Other code of the page writes the pending slot: another implementors script
\* leaves its table there, or the consumer clears the slot after reading it.
PageWritesPending ==
    /\ pc \in Quiescent \cup SuspensionPoints
    /\ \E v \in PendingValues :
         /\ v # window.pending_implementors
         /\ window' = [window EXCEPT !.pending_implementors = v]
    /\ UNCHANGED <<pc, run, implementors, checked, pendingAtStart, tableWrites, calls,
                   pendingWrites, steps>>

\* One statement of the script, or of the callback it called.
ScriptStep ==
    \/ L1
    \/ \E i \in 1..Len(AssignPc) : Assign(i)
    \/ L10
    \/ L11
    \/ L13
    \/ CallbackReturns
    \/ CallbackSetsPending
    \/ CallbackThrows
    \/ ReturnToPage

Next ==
    \/ LoadScript
    \/ ScriptStep
    \/ ConsumerInstalls
    \/ PageWritesPending

Spec == Init /\ [][Next]_vars

\* A script that has started runs to completion: the engine never abandons it.
FairSpec == Spec /\ WF_vars(ScriptStep)

-----------------------------------------------------------------------------
(* What the properties below read.                                         *)

Range(s) == {s[i] : i \in 1..Len(s)}

\* The qualified type names of a list of records, in the list's order.
TypesOf(list) == [i \in 1..Len(list) |-> list[i].types[1]]

\* The literal as the source text has it, key by key and record by record.
ExpectedTypes ==
    [bzip2 |-> <<"bzip2::write::BzEncoder", "bzip2::write::BzDecoder">>,
     flate2 |-> <<"flate2::gz::write::GzEncoder">>,
     generic_array |-> <<"generic_array::iter::GenericArrayIter">>,
     regex_syntax |-> <<"regex_syntax::ast::Ast", "regex_syntax::ast::ClassSet",
                        "regex_syntax::hir::Hir">>,
     syn |-> <<"syn::parse::ParseBuffer">>,
     thread_local |-> <<"thread_local::ThreadLocal">>,
     zip |-> <<"zip::read::ZipFile", "zip::write::ZipWriter">>]

\* v is the whole table: the 7 keys, each with all its records.
IsFullTable(v) ==
    /\ v.kind = "table"
    /\ DOMAIN v.map = DOMAIN ExpectedTypes
    /\ \A k \in DOMAIN v.map : TypesOf(v.map[k]) = ExpectedTypes[k]

\* The run is over: the anonymous function has returned or thrown.
RunOver == pc \in {"done", "error"}

\* The callback was called and never returns.
Hung == pc = "in_callback" /\ calls[Len(calls)].fn.kind = "fn_loop"

\* The hand-off actions the run has taken so far.
HandOffs == Len(calls) + Len(pendingWrites)

-----------------------------------------------------------------------------

\* C1: when the test of line 10 finds a function in window.register_implementors,
\* the run calls it exactly once, inside the script body, with the whole table
\* as its only argument, and the script never writes window.pending_implementors:
\* the slot keeps the value it had when the run began unless the callback's own
\* body wrote it.
C1_CallbackCalledOnce ==
    (pc \in {"in_callback", "done", "error"} /\ IsCallable(checked)) =>
        /\ Len(calls) = 1
        /\ calls[1].fn = checked
        /\ calls[1].args = <<implementors>>
        /\ IsFullTable(calls[1].args[1])
        /\ pendingWrites = <<>>
        /\ (pc = "in_callback" \/ checked.kind # "fn_setpending")
              => window.pending_implementors = pendingAtStart

C1_Witness ==
    /\ pc = "done"
    /\ checked.kind = "fn_ret"
    /\ Len(calls) = 1
    /\ IsFullTable(calls[1].args[1])
    /\ pendingAtStart = ForeignTable
    /\ window.pending_implementors = ForeignTable

\* C2: when the test of line 10 finds a falsy value, the run ends normally with
\* window.pending_implementors equal to the whole table (7 keys, all records)
\* and no call was made at any point of the run.
C2_CallbackAbsent ==
    (RunOver /\ checked.kind \in FalsyKinds) =>
        /\ pc = "done"
        /\ calls = <<>>
        /\ window.pending_implementors = implementors
        /\ IsFullTable(window.pending_implementors)

C2_Witness ==
    /\ pc = "done"
    /\ checked.kind = "undefined"
    /\ calls = <<>>
    /\ IsFullTable(window.pending_implementors)
    /\ pendingAtStart = Undefined

\* C3 as claimed: for every state of the two slots, a run that is over took
\* exactly one hand-off action (one call or one write of the pending slot), and
\* the callback slot still holds what the test read.
C3_ExactlyOneHandOff ==
    RunOver => (HandOffs = 1 /\ window.register_implementors = checked)

\* C3 amended: a run never takes both hand-off actions; a run that is over took
\* exactly one, except when the callback slot held a truthy value that is not a
\* function: then the call of line 11 is a TypeError and the run took neither.
\* The script never assigns the callback slot.
C3_OneHandOffUnlessNotCallable ==
    /\ HandOffs <= 1
    /\ RunOver =>
        /\ window.register_implementors = checked
        /\ IF checked.kind \in NonCallableKinds
             THEN HandOffs = 0 /\ pc = "error"
             ELSE HandOffs = 1

C3_Witness ==
    /\ pc = "error"
    /\ checked.kind = "one"
    /\ HandOffs = 0
    /\ window.register_implementors = checked

\* C4: at the hand-off (the call of line 11 or the write of line 13), and in the
\* value handed over, every key of the table has a non-empty list and the
\* records of each key are in the order of the literal.
C4_NonEmptyInLiteralOrder ==
    LET Ordered(v) ==
            /\ DOMAIN v.map = Range(KeyOrder)
            /\ \A k \in DOMAIN v.map :
                 /\ Len(v.map[k]) > 0
                 /\ TypesOf(v.map[k]) = ExpectedTypes[k]
    IN /\ pc \in {"L11", "L13"} => Ordered(implementors)
       /\ \A i \in 1..Len(calls) : Ordered(calls[i].args[1])
       /\ \A i \in 1..Len(pendingWrites) : Ordered(pendingWrites[i])

C4_Witness ==
    /\ pc = "in_callback"
    /\ TypesOf(calls[1].args[1].map["bzip2"])
         = <<"bzip2::write::BzEncoder", "bzip2::write::BzDecoder">>
    /\ calls[1].args[1].map["regex_syntax"][3].types[1] = "regex_syntax::hir::Hir"

\* C5: the 7 assignments are all done before the test of line 10, the script
\* writes nothing to the table from the test on, and no key is assigned twice:
\* every list is the one its line wrote.
C5_BuiltOnceBeforeHandOff ==
    /\ HandOffs > 0 => pc \notin {"L1"} \cup Range(AssignPc) \cup {"L10"}
    /\ (pc \in {"L10", "L11", "L13", "in_callback", "done", "error"}
          \/ (pc = "idle" /\ run > 0)) =>
        /\ Len(tableWrites) = Len(KeyOrder)
        /\ Cardinality(Range(tableWrites)) = Len(tableWrites)
        /\ DOMAIN implementors.map = Range(tableWrites)
        /\ \A k \in DOMAIN implementors.map : implementors.map[k] = Literal(k)

C5_Witness ==
    /\ pc = "L10"
    /\ tableWrites = KeyOrder
    /\ HandOffs = 0
    /\ IsFullTable(implementors)

\* C6: when the callback throws, nothing catches the exception, the call is not
\* made again and the table is not written to the pending slot: the run ends in
\* error, the pending slot as it was when the run began.
C6_ThrowPropagates ==
    (pc \in {"L13", "done", "error"} /\ checked.kind = "fn_throw") =>
        /\ pc = "error"
        /\ Len(calls) = 1
        /\ pendingWrites = <<>>
        /\ window.pending_implementors = pendingAtStart
        /\ window.pending_implementors # implementors

C6_Witness ==
    /\ pc = "error"
    /\ checked.kind = "fn_throw"
    /\ Len(calls) = 1
    /\ pendingWrites = <<>>
    /\ window.pending_implementors = Undefined

\* C7: a run calls the callback at most once, and a callback installed only
\* after the run is over is never called by the script: the run made its one
\* write of the pending slot and does nothing more.
C7_AtMostOnceNoRetry ==
    /\ Len(calls) <= 1
    /\ (pc = "idle" /\ run > 0 /\ checked.kind \in FalsyKinds) =>
          (calls = <<>> /\ pendingWrites = <<implementors>>)

C7_Witness ==
    /\ pc = "idle"
    /\ run = 1
    /\ checked.kind = "undefined"
    /\ window.register_implementors.kind = "fn_ret"
    /\ window.pending_implementors = implementors
    /\ calls = <<>>

C9_PendingOverwritten ==
    (pc = "done" /\ checked.kind \in FalsyKinds) =>
        /\ window.pending_implementors.kind = "table"
        /\ window.pending_implementors.id = run
        /\ window.pending_implementors # pendingAtStart
        /\ DOMAIN window.pending_implementors.map = Range(KeyOrder)
        /\ Len(pendingWrites) = 1

C9_Witness ==
    /\ pc = "done"
    /\ run = 2
    /\ pendingAtStart.kind = "table"
    /\ pendingAtStart.id = 1
    /\ window.pending_implementors.id = 2

\* C10: the test of line 10 is a test of truthiness: every falsy value takes the
\* write of line 13; a truthy value that is not a function takes the call of
\* line 11, which fails, and the pending slot is never written.
C10_TruthinessNotCallability ==
    RunOver =>
        /\ checked.kind \in FalsyKinds =>
              (pc = "done" /\ calls = <<>> /\ pendingWrites = <<implementors>>)
        /\ checked.kind \in NonCallableKinds =>
              /\ pc = "error"
              /\ calls = <<>>
              /\ pendingWrites = <<>>
              /\ window.pending_implementors = pendingAtStart

C10_Witness ==
    /\ pc = "error"
    /\ checked.kind = "object"
    /\ calls = <<>>
    /\ pendingWrites = <<>>
    /\ window.pending_implementors = ForeignTable

====
